---- MODULE Spec2Model ----
(***************************************************************************)
(* Model of neovim/plugin/script_host.py: the ScriptHost plugin that       *)
(* emulates the legacy python-vim interface (python_execute,               *)
(* python_execute_file, python_do_range, python_eval, setup/teardown).     *)
(* Requests are synchronous and handled one at a time, so each handler is  *)
(* one action.  The host's buffer, the files and the scripts are inputs.   *)
(***************************************************************************)
EXTENDS Integers, Sequences, FiniteSets, TLC

(* ---------------------------------------------------------------- bounds *)

\* Longest buffer the host hands to a request.
MaxLines == 3

\* Lines per batch of python_do_range.  The source uses 5000 (line 104); the
\* model runs the same loop with a small batch so that ranges of MaxLines
\* lines span several batches.
BatchSize == 2

(* ---------------------------------------------------------------- values *)

\* Python values that cross the boundary, tagged by type.
Num(n) == [t |-> "num", n |-> n]
Bool(b) == [t |-> "bool", b |-> b]
Str(s) == [t |-> "str", s |-> s]
List(items) == [t |-> "list", items |-> items]
Dict(pairs) == [t |-> "dict", pairs |-> pairs]
None == [t |-> "None"]
Function == [t |-> "function", name |-> "_vim_pydo"]
SysModule == [t |-> "module", name |-> "sys"]

\* str() of the integers the model uses.
IntText == <<"1", "2", "3">>

\* The values user code binds and the host returns: a number, and a
\* structure with numbers nested in lists and a map.
V1 == Num(1)
V2 == List(<<Str("a"), List(<<Num(2), Bool(TRUE)>>), Dict(<< <<Str("k"), Num(3)>> >>)>>)
Values == {V1, V2}

\* num_types = (int, float); bool is a subclass of int.
isinstance_num(obj) == obj.t \in {"num", "bool"}

str(obj) ==
  IF obj.t = "num" THEN IntText[obj.n]
  ELSE IF obj.t = "bool" THEN (IF obj.b THEN "True" ELSE "False")
  ELSE obj.s

num_to_str(obj) == IF isinstance_num(obj) THEN Str(str(obj)) ELSE obj

\* api.walk(fn, obj): lists and maps are rebuilt element by element (keys
\* and values of a map alike), fn is applied to every other value.
RECURSIVE walk(_)
walk(obj) ==
  IF obj.t = "list"
    THEN List([i \in 1..Len(obj.items) |-> walk(obj.items[i])])
  ELSE IF obj.t = "dict"
    THEN Dict([i \in 1..Len(obj.pairs) |->
                 <<walk(obj.pairs[i][1]), walk(obj.pairs[i][2])>>])
  ELSE num_to_str(obj)

\* TRUE iff some number occurs somewhere in obj.
RECURSIVE HasNumber(_)
HasNumber(obj) ==
  IF obj.t = "list"
    THEN \E i \in 1..Len(obj.items) : HasNumber(obj.items[i])
  ELSE IF obj.t = "dict"
    THEN \E i \in 1..Len(obj.pairs) :
           HasNumber(obj.pairs[i][1]) \/ HasNumber(obj.pairs[i][2])
  ELSE isinstance_num(obj)

(* ------------------------------------------------------------- namespace *)

fname == "_vim_pydo"
UserNames == {"x", fname}

\* A namespace is a function from the bound names to their values.
Bind(d, n, v) == [m \in DOMAIN d \cup {n} |-> IF m = n THEN v ELSE d[m]]
Del(d, n) == [m \in DOMAIN d \ {n} |-> d[m]]

\* imp.new_module('__main__') followed by exec('import sys', ...).
NewModuleDict == [m \in {"sys"} |-> SysModule]

(* ------------------------------------------------------ scripts and exec *)

\* A statement of user code: bind a name, delete a name, or raise.
Stmt(op, name, val) == [op |-> op, name |-> name, val |-> val]

BindStmt(name, val) == Stmt("bind", name, val)
DelStmt(name) == Stmt("del", name, None)
RaiseStmt == Stmt("raise", "x", None)
\* sys.stdout.write(data), sys.stderr.write(data), sys.stdout.writelines(seq)
WriteStmt(stream, data) == Stmt("write", stream, Str(data))
WriteLinesStmt(stream, seq) ==
  Stmt("writelines", stream, List([i \in 1..Len(seq) |-> Str(seq[i])]))

\* Source text given to exec/compile: it compiles or it does not, and when
\* it compiles it is a sequence of statements.
Script(ok, stmts) == [compiles |-> ok, stmts |-> stmts]

\* The scripts the host sends: they bind, rebind and delete names, raise
\* at the start or part-way, or do not compile.
StmtSeqs ==
  {<<>>,
   <<BindStmt("x", V1)>>,
   <<BindStmt("x", V2)>>,
   <<BindStmt(fname, V1)>>,
   <<DelStmt("x")>>,
   <<RaiseStmt>>,
   <<BindStmt("x", V1), RaiseStmt>>,
   <<BindStmt("x", V2), DelStmt(fname)>>,
   <<WriteStmt("stdout", "a"), WriteStmt("stderr", "b"), WriteStmt("stdout", "c\n")>>,
   <<WriteLinesStmt("stdout", <<"a", "b", "c">>), WriteLinesStmt("stderr", <<"d">>)>>,
   <<WriteStmt("stderr", "a"), RaiseStmt, WriteStmt("stderr", "b")>>}

Scripts == {Script(TRUE, ss) : ss \in StmtSeqs} \cup {Script(FALSE, <<>>)}

\* '\n'.join(seq) from element i on.
RECURSIVE join_newline(_, _)
join_newline(seq, i) ==
  IF i > Len(seq) THEN ""
  ELSE IF i = Len(seq) THEN seq[i]
  ELSE seq[i] \o "\n" \o join_newline(seq, i + 1)

\* ''.join(seq) from element i on.
RECURSIVE join_nothing(_, _)
join_nothing(seq, i) ==
  IF i > Len(seq) THEN "" ELSE seq[i] \o join_nothing(seq, i + 1)

\* RedirectStream.write(data): the calls of redirect_handler it makes.
RedirectStream_write(data) == <<data>>

\* writelines handing the lines over without a separator.
RedirectStream_writelines_concat(seq) == <<join_nothing(seq, 1)>>

\* RedirectStream.writelines(seq): the calls of redirect_handler it makes.
RedirectStream_writelines(seq) == <<join_newline(seq, 1)>>

\* The redirect handlers setup gives the two streams: sys.stdout calls
\* nvim.out_write, sys.stderr calls nvim.err_write, with the data as it is.
redirect_handler(stream, calls) ==
  [j \in 1..Len(calls) |->
     [channel |-> IF stream = "stdout" THEN "out_write" ELSE "err_write",
      data |-> calls[j]]]

\* What a request has done so far besides changing the namespace: the names
\* bound or deleted and the host's out_write/err_write calls.
NoEffects == [touched |-> {}, writes |-> <<>>]

\* Running the statements of a compiled script in namespace d, one after
\* the other, up to the first one that raises.  acc collects the names the
\* statements that ran have bound or deleted and the writes they made.
RECURSIVE run_stmts(_, _, _, _)
run_stmts(d, stmts, i, acc) ==
  IF i > Len(stmts)
    THEN [d |-> d, exc |-> "none", touched |-> acc.touched, writes |-> acc.writes]
  ELSE LET s == stmts[i] IN
    IF s.op = "raise"
      THEN [d |-> d, exc |-> "RuntimeError", touched |-> acc.touched,
            writes |-> acc.writes]
    ELSE IF s.op = "del"
      THEN IF s.name \in DOMAIN d
             THEN run_stmts(Del(d, s.name), stmts, i + 1,
                            [acc EXCEPT !.touched = @ \cup {s.name}])
             ELSE [d |-> d, exc |-> "NameError", touched |-> acc.touched,
                   writes |-> acc.writes]
    ELSE IF s.op = "write"
      THEN run_stmts(d, stmts, i + 1,
                     [acc EXCEPT !.writes =
                        @ \o redirect_handler(s.name, RedirectStream_write(s.val.s))])
    ELSE IF s.op = "writelines"
      THEN run_stmts(d, stmts, i + 1,
                     [acc EXCEPT !.writes =
                        @ \o redirect_handler(s.name,
                               RedirectStream_writelines(
                                 [j \in 1..Len(s.val.items) |-> s.val.items[j].s]))])
    ELSE run_stmts(Bind(d, s.name, s.val), stmts, i + 1,
                   [acc EXCEPT !.touched = @ \cup {s.name}])

\* An exec that puts the namespace back when the code raises.
exec_code_rollback(script, d) ==
  LET r == run_stmts(d, script.stmts, 1, NoEffects)
  IN IF r.exc = "none" THEN r ELSE [r EXCEPT !.d = d]

\* exec(code, d) of an already compiled code object.
exec_code(script, d) == run_stmts(d, script.stmts, 1, NoEffects)

\* exec(source, d) of source text: compiles first (SyntaxError), then runs.
exec(script, d) ==
  IF script.compiles THEN exec_code(script, d)
  ELSE [d |-> d, exc |-> "SyntaxError", touched |-> {}, writes |-> <<>>]

\* raise ErrorResponse(format_exc_skip(1)): the structured error, its trace
\* printed without the first (dispatcher) frame.
ErrorResponse(exc) == [kind |-> "ErrorResponse", exc |-> exc, skip |-> 1]

\* An exception that leaves the handler as it was raised.
Raised(exc) == [kind |-> "exception", exc |-> exc]

Ok == [kind |-> "ok"]
Returned(v) == [kind |-> "value", value |-> v]

(* ------------------------------------------------------------ host buffer *)

LowerLines == <<"a", "b", "c", "d", "e", "f">>
UpperLines == <<"A", "B", "C", "D", "E", "F">>

\* The buffer the host holds when a request arrives: MaxLines distinct
\* lines.  The requests range over every interval of it.
Buffers == {SubSeq(LowerLines, 1, MaxLines)}

\* line.upper()
Upper(line) ==
  IF \E i \in 1..Len(LowerLines) : LowerLines[i] = line
    THEN UpperLines[CHOOSE i \in 1..Len(LowerLines) : LowerLines[i] = line]
    ELSE line

Min(a, b) == IF a < b THEN a ELSE b

\* nvim_buf_get_lines(start, end, strict): the lines [start, end), 0-based.
get_lines(buf, s, e) == SubSeq(buf, s + 1, e)

\* nvim_buf_set_lines(start, end, strict, replacement): the lines
\* [start, end), 0-based, are replaced by the replacement lines.
set_lines(buf, s, e, repl) ==
  SubSeq(buf, 1, s) \o repl \o SubSeq(buf, e + 1, Len(buf))

(* --------------------------------------------------------- python_do_range *)

\* The body of the user's per-line function: what it does on line number k
\* and what it does on every other line.
\*   keep: return line      upper: return line.upper()    none: return None
\*   bad: return 1          raise: raise an exception
AtKinds == {"upper", "none", "bad", "raise"}
OtherKinds == {"keep", "upper", "none"}

Body(k, at, other) == [compiles |-> TRUE, k |-> k, at |-> at, other |-> other]
BadBody == [compiles |-> FALSE, k |-> 0, at |-> "keep", other |-> "keep"]

Bodies ==
  {Body(k, at, other) : k \in 1..MaxLines, at \in AtKinds, other \in OtherKinds}
    \cup {BadBody}

KindAt(body, linenr) == IF linenr = body.k THEN body.at ELSE body.other

\* function(line, linenr) when it returns.
function(body, line, linenr) ==
  LET kind == KindAt(body, linenr) IN
  IF kind = "keep" THEN Str(line)
  ELSE IF kind = "upper" THEN Str(Upper(line))
  ELSE IF kind = "none" THEN None
  ELSE Num(1)

\* function(line, linenr) raises instead of returning.
function_raises(body, line, linenr) == KindAt(body, linenr) = "raise"

ReadEvent(s, e, lines) == [op |-> "get_lines", s |-> s, e |-> e, lines |-> lines]
CallEvent(line, linenr, kind) ==
  [op |-> "call", line |-> line, linenr |-> linenr, kind |-> kind]
WriteEvent(s, e, lines, why) ==
  [op |-> "set_lines", s |-> s, e |-> e, lines |-> lines, why |-> why]

\* end of the interval written when a None result flushes the pending run.
sentinel_end(sstart, newlines) == sstart + Len(newlines) - 1

\* sstart left on the line that returned None.
sentinel_skip_stay(sstart, newlines) == sstart + Len(newlines)

\* sstart after a None result: past the pending run and the skipped line.
sentinel_skip(sstart, newlines) == sstart + Len(newlines) + 1

\* The flush that ends a batch written with the end of a sentinel flush.
final_end_short(sstart, newlines) == sstart + Len(newlines) - 1

\* end of the interval written by the flush that ends a batch.
final_end(sstart, newlines) == sstart + Len(newlines)

\* A batch one line longer than B.
batch_stop_wide(start, stop, B) == Min(start + B + 1, stop)

\* sstop = min(start + 5000, stop), with B for the 5000.
batch_stop(start, stop, B) == Min(start + B, stop)

\* The locals of a python_do_range that has not made start 0-based.
DoRangeState_unadjusted(buf, start) ==
  [buf |-> buf, start |-> start + 1, sstart |-> start + 1, newlines |-> <<>>,
   linenr |-> start + 2, exception |-> "none", raised |-> "none",
   events |-> <<>>]

\* The locals of python_do_range: the host's buffer, start, sstart,
\* newlines, linenr, exception; raised is the exception that has left the
\* handler, events the host calls and function calls made so far.
DoRangeState(buf, start) ==
  [buf |-> buf, start |-> start, sstart |-> start, newlines |-> <<>>,
   linenr |-> start + 1, exception |-> "none", raised |-> "none",
   events |-> <<>>]

\* for i, line in enumerate(lines): ...
RECURSIVE for_lines(_, _, _, _)
for_lines(st, lines, i, body) ==
  IF i > Len(lines) THEN st
  ELSE LET line == lines[i]
           called == [st EXCEPT !.events =
                        Append(@, CallEvent(line, st.linenr, KindAt(body, st.linenr)))]
    IN
    IF function_raises(body, line, st.linenr)
      THEN [called EXCEPT !.raised = "UserError"]
    ELSE LET result == function(body, line, st.linenr) IN
      IF result.t = "None"
        THEN LET end == sentinel_end(st.sstart, st.newlines)
                 flushed ==
                   IF st.newlines # <<>>
                     THEN [called EXCEPT
                             !.buf = set_lines(@, st.sstart, end, st.newlines),
                             !.events = Append(@, WriteEvent(st.sstart, end,
                                                     st.newlines, "sentinel"))]
                     ELSE called
          IN for_lines([flushed EXCEPT
                          !.sstart = sentinel_skip(st.sstart, st.newlines),
                          !.newlines = <<>>,
                          !.linenr = @ + 1],
                       lines, i + 1, body)
      ELSE IF result.t = "str"
        THEN for_lines([called EXCEPT !.newlines = Append(@, result.s),
                                      !.linenr = @ + 1],
                       lines, i + 1, body)
      ELSE [called EXCEPT !.exception = "TypeError"]

\* while start < stop: ... with batches of B lines.
RECURSIVE while_batches(_, _, _, _)
while_batches(st, stop, body, B) ==
  IF ~(st.start < stop) THEN st
  ELSE LET sstart == st.start
           sstop == batch_stop(st.start, stop, B)
           lines == get_lines(st.buf, sstart, sstop)
           read == [st EXCEPT !.sstart = sstart,
                              !.newlines = <<>>,
                              !.linenr = sstart + 1,
                              !.exception = "none",
                              !.events = Append(@, ReadEvent(sstart, sstop, lines))]
           looped == for_lines(read, lines, 1, body)
    IN
    IF looped.raised # "none" THEN looped
    ELSE LET end == final_end(looped.sstart, looped.newlines)
             flushed ==
               IF looped.newlines # <<>>
                 THEN [looped EXCEPT
                         !.start = sstop,
                         !.buf = set_lines(@, looped.sstart, end, looped.newlines),
                         !.events = Append(@, WriteEvent(looped.sstart, end,
                                                 looped.newlines, "final"))]
                 ELSE [looped EXCEPT !.start = sstop]
      IN IF flushed.exception # "none"
           THEN [flushed EXCEPT !.raised = flushed.exception]
           ELSE while_batches(flushed, stop, body, B)

\* The whole of python_do_range after _set_current_range, on buffer buf and
\* namespace d, with batches of B lines: the buffer, the namespace, the
\* exception raised (or "none") and the events.
do_range(buf, d, start, stop, body, B) ==
  IF ~body.compiles
    THEN [buf |-> buf, d |-> d, raised |-> "SyntaxError", events |-> <<>>]
  ELSE LET defined == Bind(d, fname, Function)
           st == while_batches(DoRangeState(buf, start - 1), stop, body, B)
    IN [buf |-> st.buf,
        d |-> IF st.raised = "none" THEN Del(defined, fname) ELSE defined,
        raised |-> st.raised,
        events |-> st.events]

(* ------------------------------------------------------------- path_hook *)

\* The file system the resolver looks at: the directories that exist and
\* the modules and packages in them.  A module name is the sequence of its
\* dot-separated components.
ExistingDirs ==
  {"/rt1", "/rt1/pythonx", "/rt2", "/rt2/pythonx", "/rt2/python3",
   "/rt2/python3/pkg", "/rt2/python3/pkg/sub"}

DirEntry(dir, name, kind) == [dir |-> dir, name |-> name, kind |-> kind]

DirEntries ==
  {DirEntry("/rt1/pythonx", "mod", "module"),
   DirEntry("/rt2/python3", "pkg", "package"),
   DirEntry("/rt2/python3/pkg", "mod", "module"),
   DirEntry("/rt2/python3/pkg", "sub", "package"),
   DirEntry("/rt2/python3/pkg/sub", "mod", "module")}

\* nvim.list_runtime_paths()
RuntimePaths == <<"/rt1", "/gone", "/rt2">>

\* discover_runtime_directories(nvim) over the runtime paths from i on.
RECURSIVE discover_runtime_directories(_, _)
discover_runtime_directories(paths, i) ==
  IF i > Len(paths) THEN <<>>
  ELSE IF paths[i] \notin ExistingDirs
    THEN discover_runtime_directories(paths, i + 1)
  ELSE LET path1 == paths[i] \o "/pythonx"
           path2 == paths[i] \o "/python3"
    IN (IF path1 \in ExistingDirs THEN <<path1>> ELSE <<>>)
         \o (IF path2 \in ExistingDirs THEN <<path2>> ELSE <<>>)
         \o discover_runtime_directories(paths, i + 1)

get_paths == discover_runtime_directories(RuntimePaths, 1)

FindEvent(name, nargs, outcome) ==
  [op |-> "imp.find_module", name |-> name, nargs |-> nargs, outcome |-> outcome]

\* imp.find_module(name, *args): it takes the name and at most one more
\* argument, the list of directories to search; it looks for a file or
\* directory called name, so a name with a dot in it is never found.
imp_find_module(name, args) ==
  IF Len(args) > 1 THEN [outcome |-> "TypeError"]
  ELSE LET path == args[1]
           hits == {i \in 1..Len(path) :
                      Len(name) = 1 /\ \E en \in DirEntries :
                        en.dir = path[i] /\ en.name = name[1]}
    IN IF hits = {} THEN [outcome |-> "ImportError"]
       ELSE LET dir == path[CHOOSE i \in hits : \A j \in hits : i <= j]
                en == CHOOSE en \in DirEntries : en.dir = dir /\ en.name = name[1]
         IN [outcome |-> "found",
             file |-> IF en.kind = "module" THEN "open file" ELSE "None",
             pathname |-> dir \o "/" \o name[1],
             description |-> en.kind]

\* path_hook._find_module(fullname, oldtail, path) with the imp.find_module
\* calls made so far: how it ends, what it returns, the calls.
RECURSIVE find_module_rec(_, _, _, _)
find_module_rec(fullname, oldtail, path, calls) ==
  IF Len(oldtail) > 1
    THEN LET name == <<Head(oldtail)>>
             tail == Tail(oldtail)
             fmr == imp_find_module(name, <<path>>)
             calls1 == Append(calls, FindEvent(name, 2, fmr.outcome))
      IN IF fmr.outcome # "found"
           THEN [outcome |-> fmr.outcome, calls |-> calls1]
         ELSE LET qualified == SubSeq(fullname, 1, Len(fullname) - Len(oldtail)) \o name
                  module == imp_find_module(qualified,
                              <<fmr.file, fmr.pathname, fmr.description>>)
                  calls2 == Append(calls1, FindEvent(qualified, 4, module.outcome))
           IN IF module.outcome # "found"
                THEN [outcome |-> module.outcome, calls |-> calls2]
                ELSE find_module_rec(fullname, tail, <<module.pathname>>, calls2)
  ELSE LET fmr == imp_find_module(fullname, <<path>>)
    IN [outcome |-> fmr.outcome, module |-> fmr,
        calls |-> Append(calls, FindEvent(fullname, 2, fmr.outcome))]

VimModuleLoader(module) == [t |-> "VimModuleLoader", module |-> module]

\* The module names and the path arguments the import system asks about.
FullNames ==
  {<<"mod">>, <<"nomod">>, <<"pkg", "mod">>, <<"pkg", "nomod">>,
   <<"nopkg", "mod">>, <<"pkg", "sub", "mod">>}

PathArgs == {<<>>, <<"/rt2/python3/pkg">>}

(* ------------------------------------------------------------------ state *)

VARIABLES
  sys_stdout,      \* sys.stdout
  sys_stderr,      \* sys.stderr
  sys_path,        \* sys.path
  sys_path_hooks,  \* sys.path_hooks
  self,            \* the ScriptHost's own fields, and whether it was torn down
  ns,              \* self.module.__dict__, the shared namespace
  current_range,   \* self.legacy_vim.current.range
  buffer,          \* the host's buffer as the last python_do_range left it
  req,             \* the last request and the host state it found
  response,        \* how the last request ended
  events,          \* host calls and function calls of the last python_do_range
  touched,         \* names the last request has bound or deleted
  host_writes,     \* out_write/err_write calls the host got in the last request
  process0         \* the process state before the ScriptHost was constructed

vars ==
  <<sys_stdout, sys_stderr, sys_path, sys_path_hooks, self, ns, current_range,
    buffer, req, response, events, touched, host_writes, process0>>

VIM_SPECIAL_PATH == "_vim_path_"
TheHook == "path_hook(nvim)"
RedirectOut == "RedirectStream(nvim.out_write)"
RedirectErr == "RedirectStream(nvim.err_write)"

\* Process states a ScriptHost may be constructed in: the interpreter's
\* default streams, or streams another component has installed.
ProcessStates ==
  {[stdout |-> "sys.__stdout__", stderr |-> "sys.__stderr__",
    path |-> <<"/usr/lib/python">>, path_hooks |-> <<"zipimporter">>],
   [stdout |-> "logger_out", stderr |-> "logger_err",
    path |-> <<"/usr/lib/python", "/opt/site">>, path_hooks |-> <<>>]}

\* list.remove(x): the list without its first occurrence of x.
Remove(list, x) ==
  IF \E i \in 1..Len(list) : list[i] = x
    THEN LET i == CHOOSE j \in 1..Len(list) :
                    list[j] = x /\ \A h \in 1..(j - 1) : list[h] # x
         IN SubSeq(list, 1, i - 1) \o SubSeq(list, i + 1, Len(list))
    ELSE list

InList(list, x) == \E i \in 1..Len(list) : list[i] = x

\* current.buffer.range(start, stop)
Range(start, stop) == [start |-> start, stop |-> stop]

NoRequest == [op |-> "none"]

\* The range stored when the handler has already made start 0-based.
set_current_range_adjusted(start, stop) == Range(start - 1, stop)

\* ScriptHost._set_current_range(start, stop): the new current.range.
set_current_range(start, stop) == Range(start, stop)

\* teardown putting back the interpreter's default stream.
restored_default(saved) == "sys.__stdout__"

\* The stream teardown puts back given the one setup saved.
restored_stream(saved) == saved

\* ScriptHost.__init__, which calls setup, from process state p.
Init ==
  \E p \in ProcessStates :
    /\ process0 = p
    /\ sys_path_hooks = Append(p.path_hooks, TheHook)
    /\ sys_path = Append(p.path, VIM_SPECIAL_PATH)
    /\ sys_stdout = RedirectOut
    /\ sys_stderr = RedirectErr
    /\ self = [live |-> TRUE, hook |-> TheHook,
               saved_stdout |-> p.stdout, saved_stderr |-> p.stderr,
               module |-> 1]
    /\ ns = NewModuleDict
    /\ current_range = Range(0, 0)
    /\ buffer = <<>>
    /\ req = NoRequest
    /\ response = Ok
    /\ events = <<>>
    /\ touched = {}
    /\ host_writes = <<>>

\* ScriptHost.teardown
teardown ==
  /\ self.live
  /\ sys_path' = Remove(sys_path, VIM_SPECIAL_PATH)
  /\ sys_path_hooks' = Remove(sys_path_hooks, self.hook)
  /\ sys_stdout' = restored_stream(self.saved_stdout)
  /\ sys_stderr' = restored_stream(self.saved_stderr)
  /\ self' = [self EXCEPT !.live = FALSE]
  /\ req' = [op |-> "teardown"]
  /\ response' = Ok
  /\ buffer' = <<>>
  /\ events' = <<>>
  /\ touched' = {}
  /\ host_writes' = <<>>
  /\ UNCHANGED <<ns, current_range, process0>>

\* User code run in a namespace made for the request.
exec_fresh_globals(d) == NewModuleDict

\* The namespace user code runs in.
exec_globals(d) == d

\* ScriptHost.python_execute(script, range_start, range_stop)
python_execute ==
  /\ self.live
  /\ \E buf \in Buffers, script \in Scripts :
     \E range_start \in 1..Len(buf) :
     \E range_stop \in range_start..Len(buf) :
     \E r \in {exec(script, exec_globals(ns))} :
       /\ current_range' = set_current_range(range_start, range_stop)
       /\ ns' = r.d
       /\ touched' = r.touched
       /\ host_writes' = r.writes
       /\ response' = IF r.exc = "none" THEN Ok ELSE ErrorResponse(r.exc)
       /\ req' = [op |-> "python_execute", script |-> script, buffer |-> buf,
                  start |-> range_start, stop |-> range_stop]
       /\ buffer' = <<>>
       /\ events' = <<>>
  /\ UNCHANGED <<sys_stdout, sys_stderr, sys_path, sys_path_hooks, self, process0>>

\* A file path names no readable file, or a file holding a script.
Files == {[readable |-> FALSE, script |-> Script(FALSE, <<>>)]}
           \cup {[readable |-> TRUE, script |-> s] : s \in Scripts}

\* ScriptHost.python_execute_file(file_path, range_start, range_stop)
python_execute_file ==
  /\ self.live
  /\ \E buf \in Buffers, file \in Files :
     \E range_start \in 1..Len(buf) :
     \E range_stop \in range_start..Len(buf) :
     \E r \in {exec_code(file.script, exec_globals(ns))} :
       LET ran == file.readable /\ file.script.compiles IN
       /\ current_range' = set_current_range(range_start, range_stop)
       /\ ns' = IF ran THEN r.d ELSE ns
       /\ touched' = IF ran THEN r.touched ELSE {}
       /\ host_writes' = IF ran THEN r.writes ELSE <<>>
       /\ response' =
            IF ~file.readable THEN Raised("IOError")
            ELSE IF ~file.script.compiles THEN Raised("SyntaxError")
            ELSE IF r.exc = "none" THEN Ok
            ELSE ErrorResponse(r.exc)
       /\ req' = [op |-> "python_execute_file", file |-> file, buffer |-> buf,
                  start |-> range_start, stop |-> range_stop]
       /\ buffer' = <<>>
       /\ events' = <<>>
  /\ UNCHANGED <<sys_stdout, sys_stderr, sys_path, sys_path_hooks, self, process0>>

\* ScriptHost.python_do_range(start, stop, code)
python_do_range ==
  /\ self.live
  /\ \E buf \in Buffers, code \in Bodies :
     \E start \in 1..Len(buf) :
     \E stop \in {n \in (start - 2)..Len(buf) : n >= 0} :
     \E r \in {do_range(buf, exec_globals(ns), start, stop, code, BatchSize)} :
       /\ current_range' = set_current_range(start, stop)
       /\ ns' = r.d
       /\ touched' = IF code.compiles THEN {fname} ELSE {}
       /\ host_writes' = <<>>
       /\ response' = IF r.raised = "none" THEN Ok ELSE Raised(r.raised)
       /\ req' = [op |-> "python_do_range", code |-> code, buffer |-> buf,
                  start |-> start, stop |-> stop]
       /\ buffer' = r.buf
       /\ events' = r.events
  /\ UNCHANGED <<sys_stdout, sys_stderr, sys_path, sys_path_hooks, self, process0>>

\* An expression: a name, or text that does not compile.
Exprs == [compiles : {TRUE}, name : UserNames \cup {"sys"}]
           \cup {[compiles |-> FALSE, name |-> "x"]}

\* python_eval passing its value through walk(num_to_str, ...).
eval_coerced(v) == walk(v)

\* What python_eval hands back for the value v of the expression.
eval_result(v) == v

\* ScriptHost.python_eval(expr)
python_eval ==
  /\ self.live
  /\ \E expr \in Exprs :
       /\ response' =
            IF ~expr.compiles THEN Raised("SyntaxError")
            ELSE IF expr.name \notin DOMAIN exec_globals(ns) THEN Raised("NameError")
            ELSE Returned(eval_result(exec_globals(ns)[expr.name]))
       /\ req' = [op |-> "python_eval", expr |-> expr]
  /\ buffer' = <<>>
  /\ events' = <<>>
  /\ touched' = {}
  /\ host_writes' = <<>>
  /\ UNCHANGED <<sys_stdout, sys_stderr, sys_path, sys_path_hooks, self, ns,
                 current_range, process0>>

\* LegacyVim.eval(expr): the host evaluates expr to obj, walk(num_to_str, obj)
\* is handed to the caller.
LegacyVim_eval ==
  /\ self.live
  /\ \E obj \in Values \cup {Str("1"), Bool(FALSE)} :
       /\ response' = Returned(walk(obj))
       /\ req' = [op |-> "vim.eval", obj |-> obj]
  /\ buffer' = <<>>
  /\ events' = <<>>
  /\ touched' = {}
  /\ host_writes' = <<>>
  /\ UNCHANGED <<sys_stdout, sys_stderr, sys_path, sys_path_hooks, self, ns,
                 current_range, process0>>

\* VimPathFinder.find_module(fullname, path=None)
VimPathFinder_find_module ==
  /\ self.live
  /\ \E fullname \in FullNames, path \in PathArgs :
     \E r \in {find_module_rec(fullname, fullname,
                                IF path # <<>> THEN path ELSE get_paths, <<>>)} :
       /\ response' =
            IF r.outcome = "found" THEN Returned(VimModuleLoader(r.module))
            ELSE IF r.outcome = "ImportError" THEN Returned(None)
            ELSE Raised(r.outcome)
       /\ events' = r.calls
       /\ req' = [op |-> "find_module", fullname |-> fullname, path |-> path]
  /\ buffer' = <<>>
  /\ touched' = {}
  /\ host_writes' = <<>>
  /\ UNCHANGED <<sys_stdout, sys_stderr, sys_path, sys_path_hooks, self, ns,
                 current_range, process0>>

Next ==
  \/ python_execute
  \/ python_execute_file
  \/ python_do_range
  \/ python_eval
  \/ LegacyVim_eval
  \/ VimPathFinder_find_module
  \/ teardown

Spec == Init /\ [][Next]_vars

(* ----------------------------------------------------------------- claims *)

IsDoRange == req.op = "python_do_range"

\* The user function of the last python_do_range returns text or None on
\* every line.
TextOrSentinel == IsDoRange /\ req.code.compiles /\ req.code.at \in {"upper", "none"}

\* buf without its line k (1-based).
WithoutLine(buf, k) == SubSeq(buf, 1, k - 1) \o SubSeq(buf, k + 1, Len(buf))

\* Line k is the first line of its batch in a range starting at line start.
FirstInBatch(k, start) == (k - start) % BatchSize = 0

\* C1: a name bound in the shared namespace keeps its value through every
\* later request that does not itself rebind or delete it, and the module
\* holding the namespace is never replaced.
C1_StateAccumulates ==
  [][/\ \A n \in DOMAIN ns :
          n \notin touched' => (n \in DOMAIN ns' /\ ns'[n] = ns[n])
     /\ self'.module = self.module]_vars

\* A later python_execute has bound another name and x, bound by an earlier
\* request, is still there.
C1_Witness ==
  /\ req.op = "python_execute"
  /\ touched = {fname}
  /\ "x" \in DOMAIN ns
  /\ ns["x"] = V2

\* C2: whenever user code fails to compile, execute or evaluate in one of
\* the four requests, the request ends as an ErrorResponse, never as a raw
\* exception.
C2_ErrorContract ==
  (/\ req.op \in {"python_execute", "python_execute_file", "python_do_range",
                  "python_eval"}
   /\ response.kind \in {"ErrorResponse", "exception"}
   /\ response.exc # "IOError")
    => response.kind = "ErrorResponse"

\* C3: a python_do_range whose function returns text or None reads, passes
\* and writes only lines start..stop (0-based [start - 1, stop)), and every
\* line outside keeps its content and its position.
C3_OnlyTheRange ==
  TextOrSentinel =>
    /\ Len(buffer) = Len(req.buffer)
    /\ \A i \in 1..Len(req.buffer) :
         (i < req.start \/ i > req.stop) => buffer[i] = req.buffer[i]
    /\ \A j \in 1..Len(events) :
         IF events[j].op = "call"
           THEN events[j].linenr \in req.start..req.stop
           ELSE req.start - 1 <= events[j].s /\ events[j].e <= req.stop

\* The function of the last python_do_range returns None on line k of the
\* range and the unchanged line everywhere else.
SentinelAtK ==
  /\ IsDoRange
  /\ req.code.compiles
  /\ req.code.at = "none"
  /\ req.code.other = "keep"
  /\ req.code.k \in req.start..req.stop

C5_BatchingUnobservable ==
  (TextOrSentinel /\ req.stop - req.start + 1 > BatchSize) =>
    buffer = do_range(req.buffer, NewModuleDict, req.start, req.stop,
                      req.code, 1).buf

\* C6: every call of the user function gets, with the line number, the text
\* the line of that number had before the request.
C6_LineNumbers ==
  IsDoRange =>
    \A j \in 1..Len(events) :
      events[j].op = "call" => events[j].line = req.buffer[events[j].linenr]

\* C7: when python_do_range ends, with success or with an invalid return
\* value or an exception of the user function, _vim_pydo is not bound.
C7_FunctionRemoved ==
  (IsDoRange /\ req.code.compiles) => fname \notin DOMAIN ns

\* What the function of body gives for a line that it does not fail on.
Replacement(body, line, linenr) ==
  IF KindAt(body, linenr) = "upper" THEN Upper(line) ELSE line

\* C8: when the user function fails on line k, the lines of the range
\* before k hold their replacements, line k and all later lines are as they
\* were, and the error reaches the caller.
C8_PartialApply ==
  (/\ IsDoRange
   /\ req.code.compiles
   /\ req.code.at \in {"bad", "raise"}
   /\ req.code.k \in req.start..req.stop)
    => /\ response.kind \in {"ErrorResponse", "exception"}
       /\ buffer = [i \in 1..Len(req.buffer) |->
                      IF req.start <= i /\ i < req.code.k
                        THEN Replacement(req.code, req.buffer[i], i)
                        ELSE req.buffer[i]]

EvalReturned == req.op = "python_eval" /\ response.kind = "value"

\* C9 as stated: python_eval returns the value of the expression with every
\* number, at any depth, replaced by its text.
C9_EvalCoerces ==
  EvalReturned => response.value = walk(ns[req.expr.name])

\* C9 amended: python_eval returns the value of the expression unchanged,
\* numbers included; it is LegacyVim.eval whose result has no number left
\* at any depth and is the host's value when that holds no number.
C9_EvalUnchanged ==
  /\ EvalReturned => response.value = ns[req.expr.name]
  /\ req.op = "vim.eval" =>
       /\ ~HasNumber(response.value)
       /\ ~HasNumber(req.obj) => response.value = req.obj

\* python_eval has returned a nested structure that holds numbers.
C9_Witness ==
  /\ EvalReturned
  /\ response.value.t = "list"
  /\ HasNumber(response.value)

\* C10: while the ScriptHost is live the two streams are its redirectors;
\* after teardown they are the objects installed before setup, and neither
\* the special path nor the hook is in its list.
C10_SetupTeardown ==
  /\ self.live => (sys_stdout = RedirectOut /\ sys_stderr = RedirectErr)
  /\ ~self.live =>
       /\ sys_stdout = process0.stdout
       /\ sys_stderr = process0.stderr
       /\ ~InList(sys_path, VIM_SPECIAL_PATH)
       /\ ~InList(sys_path_hooks, TheHook)

\* Torn down after requests have run, in a process whose streams were not
\* the interpreter's defaults.
C10_Witness ==
  /\ ~self.live
  /\ "x" \in DOMAIN ns
  /\ process0.stdout = "logger_out"
  /\ sys_stdout = "logger_out"

RangedOps == {"python_execute", "python_execute_file", "python_do_range"}

\* C11: each python_execute, python_execute_file and python_do_range leaves
\* current.range equal to the range of its own (start, stop) arguments,
\* whether it succeeds or fails, and python_eval leaves it as it was.
C11_CurrentRange ==
  [][/\ req'.op \in RangedOps => current_range' = Range(req'.start, req'.stop)
     /\ req'.op = "python_eval" => current_range' = current_range]_vars

\* A python_do_range that failed has left its own range as the current one.
C11_Witness ==
  /\ IsDoRange
  /\ response.kind = "exception"
  /\ req.start > 1
  /\ current_range = Range(req.start, req.stop)

\* The script of the last python_execute or python_execute_file that ran.
RanScript ==
  IF req.op = "python_execute" THEN req.script ELSE req.file.script

ScriptRan ==
  \/ req.op = "python_execute" /\ req.script.compiles
  \/ req.op = "python_execute_file" /\ req.file.readable /\ req.file.script.compiles

\* The statements of stmts up to the first raise.
BeforeRaise(stmts) ==
  LET fails == {i \in 1..Len(stmts) : stmts[i].op = "raise"}
  IN IF fails = {} THEN stmts
     ELSE SubSeq(stmts, 1, (CHOOSE i \in fails : \A j \in fails : i <= j) - 1)

\* The statements of stmts that write to stream, in order.
WritesTo(stmts, stream) ==
  SelectSeq(stmts, LAMBDA s : s.op \in {"write", "writelines"} /\ s.name = stream)

\* The calls in the host's log that went to channel, in order.
Received(channel) == SelectSeq(host_writes, LAMBDA w : w.channel = channel)

\* The text one write statement hands to the sink: the data of a write, the
\* lines of a writelines with one newline between two lines and none after.
RECURSIVE Between(_)
Between(items) ==
  IF Len(items) = 0 THEN ""
  ELSE IF Len(items) = 1 THEN items[1].s
  ELSE Between(SubSeq(items, 1, Len(items) - 1)) \o "\n" \o items[Len(items)].s

SinkText(s) == IF s.op = "write" THEN s.val.s ELSE Between(s.val.items)

ChannelMatches(stream, channel) ==
  LET sent == WritesTo(BeforeRaise(RanScript.stmts), stream)
      got == Received(channel)
  IN /\ Len(got) = Len(sent)
     /\ \A j \in 1..Len(sent) : got[j].data = SinkText(sent[j])

\* C12: the texts the host receives by out_write are, one call per write
\* and in order, the data of the writes to sys.stdout (the lines of a
\* writelines joined by newline, none appended); the same for err_write and
\* sys.stderr; nothing is dropped, added or sent to the other channel.
C12_StreamsForwarded ==
  (ScriptRan /\ \A i \in 1..Len(RanScript.stmts) : RanScript.stmts[i].op # "del")
    => /\ ChannelMatches("stdout", "out_write")
       /\ ChannelMatches("stderr", "err_write")
       /\ Len(host_writes) = Len(Received("out_write")) + Len(Received("err_write"))

\* A script has written lines and data to both streams.
C12_Witness ==
  /\ ScriptRan
  /\ response = Ok
  /\ Len(Received("out_write")) = 1
  /\ Received("out_write")[1].data = "a\nb\nc"
  /\ Len(Received("err_write")) = 1

IsFind == req.op = "find_module"

\* The directories a find searches first.
SearchRoots == IF req.path # <<>> THEN req.path ELSE get_paths

\* The directory of component name among the directories of path, or "".
Located(name, path) ==
  LET hits == {i \in 1..Len(path) :
                 \E en \in DirEntries : en.dir = path[i] /\ en.name = name}
  IN IF hits = {} THEN ""
     ELSE path[CHOOSE i \in hits : \A j \in hits : i <= j]

\* Every component of names exists: the first under path, each next one
\* inside the one before it.
RECURSIVE AllFound(_, _)
AllFound(names, path) ==
  IF names = <<>> THEN TRUE
  ELSE LET dir == Located(Head(names), path)
    IN dir # "" /\ AllFound(Tail(names), <<dir \o "/" \o Head(names)>>)

\* C13: a find for a name of which some component is not found under the
\* search roots returns None, and no find ever raises.
C13_ResolverDeclines ==
  IsFind =>
    /\ response.kind = "value"
    /\ ~AllFound(req.fullname, SearchRoots) => response = Returned(None)

\* C17: a find for a dotted name whose components all exist makes one
\* resolution step per component and returns a loader for the module.
C17_DottedNames ==
  (IsFind /\ Len(req.fullname) > 1 /\ AllFound(req.fullname, SearchRoots))
    => /\ response.kind = "value"
       /\ response.value.t = "VimModuleLoader"
       /\ Len(events) = Len(req.fullname)

\* The function of the last python_do_range returns a value that is neither
\* text nor None on line k of the range.
InvalidAtK ==
  /\ IsDoRange
  /\ req.code.compiles
  /\ req.code.at = "bad"
  /\ req.code.k \in req.start..req.stop

\* The position in events of the call that returned the invalid value.
BadCall == CHOOSE j \in 1..Len(events) : events[j].op = "call" /\ events[j].kind = "bad"

\* The number of the first line of the batch that line k is in.
BatchFirst(k, start) == k - ((k - start) % BatchSize)

\* C14: after an invalid return value on line k the function is called on
\* no further line and no further read is made; the run pending before k is
\* written by one final write (none when nothing is pending); a TypeError
\* is raised; and the lines written before stay written.
C14_InvalidReturn ==
  InvalidAtK =>
    LET after == SubSeq(events, BadCall + 1, Len(events))
        first == BatchFirst(req.code.k, req.start)
        pending == IF req.code.other = "none" THEN <<>>
                   ELSE [i \in 1..(req.code.k - first) |->
                           Replacement(req.code, req.buffer[first + i - 1],
                                       first + i - 1)]
    IN /\ response = Raised("TypeError")
       /\ \A j \in 1..Len(after) : after[j].op = "set_lines"
       /\ after = IF pending = <<>> THEN <<>>
                  ELSE <<WriteEvent(first - 1, req.code.k - 1, pending, "final")>>
       /\ req.code.other # "none" =>
            buffer = [i \in 1..Len(req.buffer) |->
                        IF req.start <= i /\ i < req.code.k
                          THEN Replacement(req.code, req.buffer[i], i)
                          ELSE req.buffer[i]]

\* An invalid value on the last line of a range, upper-cased lines pending.
C14_Witness ==
  /\ InvalidAtK
  /\ req.code.other = "upper"
  /\ req.code.k = req.stop
  /\ req.start < req.stop
  /\ events[Len(events)].op = "set_lines"
  /\ buffer[req.start] = Upper(req.buffer[req.start])

\* C15: every set_lines of python_do_range replaces as many lines as it
\* supplies, so the buffer has as many lines after the request as before.
C15_FlushCoverage ==
  (IsDoRange /\ req.code.compiles) =>
    /\ \A j \in 1..Len(events) :
         events[j].op = "set_lines" =>
           events[j].e - events[j].s = Len(events[j].lines)
    /\ Len(buffer) = Len(req.buffer)

ReadAt == {j \in 1..Len(events) : events[j].op = "get_lines"}

\* The reads of the last python_do_range, in order.
Reads == SelectSeq(events, LAMBDA ev : ev.op = "get_lines")

\* The position after the last event of the batch read at position j.
BatchEnd(j) ==
  IF \E h \in ReadAt : h > j
    THEN CHOOSE h \in ReadAt : h > j /\ \A g \in ReadAt : g > j => h <= g
    ELSE Len(events) + 1

\* How many events of the batch read at position j satisfy Test.
CountIn(j, Test(_)) ==
  Cardinality({h \in (j + 1)..(BatchEnd(j) - 1) : Test(events[h])})

IsWrite(ev) == ev.op = "set_lines"
IsSentinel(ev) == ev.op = "call" /\ ev.kind = "none"
IsText(ev) == ev.op = "call" /\ ev.kind \in {"keep", "upper"}

\* The reads cover the range from line start on, one after the other
\* without gap or overlap, each of 1 to BatchSize lines.
ReadsInOrder ==
  /\ Reads # <<>> => Reads[1].s = req.start - 1
  /\ \A i \in 1..Len(Reads) :
       /\ 1 <= Reads[i].e - Reads[i].s
       /\ Reads[i].e - Reads[i].s <= BatchSize
       /\ Reads[i].e <= req.stop
       /\ i < Len(Reads) => Reads[i + 1].s = Reads[i].e

\* C16: a successful python_do_range over L lines makes ceil(L / BatchSize)
\* reads, one at the start of each batch, that partition the range; a batch
\* makes at most one write more than it has None results, and none when it
\* has no text result.
C16_RoundTrips ==
  (IsDoRange /\ response = Ok) =>
    LET L == req.stop - req.start + 1 IN
    /\ Len(Reads) = (L + BatchSize - 1) \div BatchSize
    /\ ReadsInOrder
    /\ Reads # <<>> => (events[1].op = "get_lines" /\ Reads[Len(Reads)].e = req.stop)
    /\ \A j \in ReadAt :
         /\ CountIn(j, IsWrite) <= 1 + CountIn(j, IsSentinel)
         /\ CountIn(j, IsText) = 0 => CountIn(j, IsWrite) = 0

\* A successful request of several batches, one of them with a None result
\* between two texts.
C16_Witness ==
  /\ IsDoRange
  /\ response = Ok
  /\ Len(Reads) >= 2
  /\ \E j \in ReadAt : CountIn(j, IsWrite) = 1 /\ CountIn(j, IsSentinel) = 1

\* C18: a successful python_do_range, whose body has no side effects, leaves
\* the namespace with the bindings it had before the call, a user's binding
\* of '_vim_pydo' among them.
C18_ReservedName ==
  [][(req'.op = "python_do_range" /\ response' = Ok) => ns' = ns]_vars

Executes == {"python_execute", "python_execute_file"}

\* The statements of a failed script that ran before the one that failed:
\* those before the first raise, or before the del of an unbound name.
BeforeFailure(stmts, exc) ==
  IF exc = "RuntimeError" THEN BeforeRaise(stmts)
  ELSE LET dels == {i \in 1..Len(stmts) : stmts[i].op = "del"}
       IN SubSeq(stmts, 1, (CHOOSE i \in dels : \A j \in dels : i <= j) - 1)

\* The statement at position i of stmts binds or deletes name n.
Touches(stmts, i, n) == stmts[i].op \in {"bind", "del"} /\ stmts[i].name = n

\* C19: when a script fails part-way, every binding made by a statement
\* before the failure is in the namespace after the request, the names those
\* statements did not touch keep their bindings, and the current range is
\* the one of the failed request.
C19_NoRollback ==
  [][(/\ req'.op \in Executes
      /\ ScriptRan'
      /\ response'.kind = "ErrorResponse") =>
       LET pre == BeforeFailure(RanScript'.stmts, response'.exc) IN
       /\ \A i \in 1..Len(pre) :
            (/\ pre[i].op = "bind"
             /\ \A j \in (i + 1)..Len(pre) : ~Touches(pre, j, pre[i].name)) =>
              /\ pre[i].name \in DOMAIN ns'
              /\ ns'[pre[i].name] = pre[i].val
       /\ \A n \in DOMAIN ns :
            (\A i \in 1..Len(pre) : ~Touches(pre, i, n)) =>
              /\ n \in DOMAIN ns'
              /\ ns'[n] = ns[n]
       /\ current_range' = Range(req'.start, req'.stop)]_vars

\* A script has bound x and then raised; x is bound as the script bound it.
C19_Witness ==
  /\ req.op \in Executes
  /\ ScriptRan
  /\ response = ErrorResponse("RuntimeError")
  /\ RanScript.stmts = <<BindStmt("x", V1), RaiseStmt>>
  /\ "x" \in DOMAIN ns
  /\ ns["x"] = V1
  /\ current_range = Range(req.start, req.stop)

\* C20: python_do_range ends, whatever the function returns: every read
\* starts where the one before ended (the first at line start) and covers
\* min(BatchSize, lines left) >= 1 lines, so there are at most as many reads
\* and calls as lines, and a successful request has read up to stop; a
\* request with an empty range reads, writes and calls nothing.
C20_Terminates ==
  (IsDoRange /\ req.code.compiles) =>
    LET L == req.stop - req.start + 1 IN
    /\ L <= 0 => (events = <<>> /\ response = Ok /\ buffer = req.buffer)
    /\ L > 0 =>
         /\ Reads # <<>>
         /\ Reads[1].s = req.start - 1
         /\ \A i \in 1..Len(Reads) :
              /\ Reads[i].e - Reads[i].s = Min(BatchSize, req.stop - Reads[i].s)
              /\ Reads[i].e - Reads[i].s >= 1
              /\ i < Len(Reads) => Reads[i + 1].s = Reads[i].e
         /\ Len(Reads) <= L
         /\ Len(SelectSeq(events, LAMBDA ev : ev.op = "call")) <= L
         /\ response = Ok => Reads[Len(Reads)].e = req.stop

\* A request that met None results and then an invalid value has ended.
C20_Witness ==
  /\ InvalidAtK
  /\ req.code.other = "none"
  /\ req.start < req.stop
  /\ req.code.k = req.stop
  /\ response = Raised("TypeError")
  /\ Len(events) >= 3

====
